---- MODULE Spec2Model ----
(***************************************************************************)
(* A model of the market-making simulator of src/models/market_making.py   *)
(* and src/utils/helpers.py: the MidPriceModel / TradeExecution /           *)
(* MarketMaker objects, the single-path run (run_simulation), the batch    *)
(* operations (run_monte_carlo_simulation, run_sensitivity_analysis,       *)
(* run_stress_test), simulate_trades, and the statistics helpers.          *)
(*                                                                         *)
(* Numbers.  The program computes in floating point; the model computes    *)
(* exactly, on a grid on which every operation of the code is exact:       *)
(*   - volatilities are even integers, so 0.5 * volatility**2 and the      *)
(*     half spread are integers;                                           *)
(*   - np.exp is taken to the base 2 (the unit of the log-price is ln 2):  *)
(*     Exp(0) = 1, Exp(a + b) = Exp(a) * Exp(b), Exp is increasing;        *)
(*   - the price is a power of two between 1 and 16 ticks (LogPrices); a    *)
(*     normal draw that would leave this range is not explored;            *)
(*   - execution_probability is a dyadic rational [n, d] (n / d), so that  *)
(*     halving and doubling are exact, as they are for a binary float.     *)
(* Random draws (np.random.normal, np.random.uniform, randint, choice)     *)
(* are inputs chosen nondeterministically.                                 *)
(***************************************************************************)
EXTENDS Integers, Sequences, FiniteSets, TLC

VARIABLES
    price,                  \* MidPriceModel.price
    volatility,             \* MidPriceModel.volatility
    risk_free_rate,         \* MidPriceModel.risk_free_rate
    model_type,             \* MidPriceModel.model_type
    execution_probability,  \* TradeExecution.execution_probability
    risk_aversion,          \* MarketMaker.risk_aversion
    base_intensity,         \* MarketMaker.base_intensity
    inventory,              \* MarketMaker.inventory
    trades,                 \* MarketMaker.trades
    pnl,                    \* MarketMaker.pnl
    initial_price,          \* the initial_price the MidPriceModel was built with
    stack,                  \* the call stack: one frame per active method
    last,                   \* how the last top-level call ended
    calls,                  \* number of top-level calls made so far
    sh                      \* a call of helpers.calculate_sharpe_ratio

vars == <<price, volatility, risk_free_rate, model_type, execution_probability,
          risk_aversion, base_intensity, inventory, trades, pnl, initial_price,
          stack, last, calls, sh>>

model == <<price, volatility, risk_free_rate, model_type, execution_probability,
           risk_aversion, base_intensity, inventory, trades, pnl, initial_price>>

----------------------------------------------------------------------------
(* Bounds of the exploration *)

MaxCalls == 2     \* top-level calls a client makes
MaxSteps == 2     \* the steps argument
MaxTrades == 2    \* the num_trades argument
MaxSims == 1      \* the num_simulations argument
MaxListLen == 1   \* length of a list of scenarios or parameter values
MaxReturns == 3   \* length of a return series
MaxReturn == 2    \* magnitude of a return

(* Samples of the inputs and of the random draws *)

LogPrices == 0..4             \* the price grid: 2^k ticks, k in LogPrices
Shocks == {0, 1, 2, 4, 8}     \* np.random.normal()
TimeSteps == {-1, 0, 1}       \* the time_step argument
TradeSizes == {1, 2}          \* np.random.randint(1, 10)
BatchSteps == {0, 1}          \* the steps argument of a batch operation

----------------------------------------------------------------------------
(* Arithmetic helpers *)

RECURSIVE Sum(_)
Sum(s) == IF s = <<>> THEN 0 ELSE Head(s) + Sum(Tail(s))

RECURSIVE Dot(_, _)
Dot(a, b) == IF a = <<>> THEN 0 ELSE Head(a) * Head(b) + Dot(Tail(a), Tail(b))

Max(S) == CHOOSE x \in S : \A y \in S : y <= x

\* sequences over S of length at most n
SeqUpTo(S, n) == UNION {[1..k -> S] : k \in 0..n}

\* np.sqrt on the perfect squares the model uses
Sqrt(n) == CHOOSE r \in 0..n : r * r = n

\* the k with p = 2^k, for a price p of the grid
Log2(p) == CHOOSE k \in LogPrices : 2 ^ k = p

\* p * exp(e) is a price of the grid
Representable(p, e) == (Log2(p) + e) \in LogPrices

\* what stands for a price that is not on the grid (no price is negative)
OffGrid == 0 - 1

\* p * np.exp(e), np.exp to the base 2
TimesExp(p, e) ==
    IF Representable(p, e) THEN 2 ^ (Log2(p) + e) ELSE OffGrid

\* dyadic rationals n / d, d a power of two, in lowest terms
Half(q) == IF q.n % 2 = 0 /\ q.n # 0 THEN [n |-> q.n \div 2, d |-> q.d]
           ELSE IF q.n = 0 THEN q ELSE [n |-> q.n, d |-> 2 * q.d]
Double(q) == IF q.d % 2 = 0 THEN [n |-> q.n, d |-> q.d \div 2]
             ELSE [n |-> 2 * q.n, d |-> q.d]

\* Python values
None == [kind |-> "None"]
NoRet == [kind |-> "no return yet"]
Scalar(x) == [kind |-> "scalar", val |-> x]
List(s) == [kind |-> "list", val |-> s]

----------------------------------------------------------------------------
(* src/utils/helpers.py *)

\* n^2 times the (population) variance of xs: numpy's std() is zero exactly
\* when this is zero
Var2(xs) == Len(xs) * Dot(xs, xs) - Sum(xs) * Sum(xs)

\* returns.std() == 0
StdIsZero(xs) == Var2(xs) = 0

\* A variant without the zero-deviation guard
calculate_sharpe_ratio_unguarded(returns, rfr) ==
    IF Len(returns) = 0 THEN None
    ELSE LET excess_returns == [i \in 1..Len(returns) |-> returns[i] - rfr]
         IN  [kind |-> "ratio", num |-> Sum(excess_returns),
              den2 |-> Var2(excess_returns)]

\* calculate_sharpe_ratio(returns, risk_free_rate).  The ratio
\* excess.mean() / excess.std() = Sum(excess) / sqrt(Var2(excess)) is kept as
\* the pair (num, den2).
calculate_sharpe_ratio(returns, rfr) ==
    IF Len(returns) = 0 THEN None
    ELSE IF StdIsZero(returns)
    THEN [kind |-> "raise",
          err |-> "ValueError: Standard deviation of returns cannot be zero."]
    ELSE LET excess_returns == [i \in 1..Len(returns) |-> returns[i] - rfr]
         IN  [kind |-> "ratio", num |-> Sum(excess_returns),
              den2 |-> Var2(excess_returns)]

\* calculate_pnl(prices, inventory): len() of a number raises TypeError
calculate_pnl(prices, inv) ==
    IF prices.kind # "list" \/ inv.kind # "list"
    THEN [kind |-> "raise", err |-> "TypeError: object has no len()"]
    ELSE IF Len(prices.val) # Len(inv.val)
    THEN [kind |-> "raise",
          err |-> "ValueError: Prices and inventory arrays must have the same length."]
    ELSE [kind |-> "value", val |-> Dot(prices.val, inv.val)]

----------------------------------------------------------------------------
(* MidPriceModel, TradeExecution *)

\* drift + shock (lines 17-18), z the normal draw; the volatility being
\* even, (risk_free_rate - 0.5 * volatility**2) * time_step is an integer
Exponent(vol, rfr, time_step, z) ==
    LET drift == ((2 * rfr - vol * vol) * time_step) \div 2
        shock == vol * Sqrt(time_step) * z
    IN  drift + shock

\* self.price * np.exp(drift + shock) (line 21)
GBMStep(p, vol, rfr, time_step, z) ==
    TimesExp(p, Exponent(vol, rfr, time_step, z))

\* A variant that updates the price before it looks at the model type
simulate_price_dynamics_early(p, vol, rfr, mt, time_step, z) ==
    IF time_step <= 0
    THEN [kind |-> "raise", err |-> "ValueError: Time step must be positive.",
          price |-> p]
    ELSE IF mt = "GBM"
    THEN [kind |-> "return", val |-> GBMStep(p, vol, rfr, time_step, z),
          price |-> GBMStep(p, vol, rfr, time_step, z)]
    ELSE [kind |-> "raise",
          err |-> "ValueError: Unsupported model type. Only 'GBM' is supported.",
          price |-> GBMStep(p, vol, rfr, time_step, z)]

\* MidPriceModel.simulate_price_dynamics(time_step) with the normal draw z:
\* what the call does (return / raise) and the model's price after it
simulate_price_dynamics(p, vol, rfr, mt, time_step, z) ==
    IF time_step <= 0
    THEN [kind |-> "raise", err |-> "ValueError: Time step must be positive.",
          price |-> p]
    ELSE IF mt = "GBM"
    THEN [kind |-> "return", val |-> GBMStep(p, vol, rfr, time_step, z),
          price |-> GBMStep(p, vol, rfr, time_step, z)]
    ELSE [kind |-> "raise",
          err |-> "ValueError: Unsupported model type. Only 'GBM' is supported.",
          price |-> p]

\* TradeExecution.calculate_execution_intensity: 1.0 * exp(-0.1 * distance),
\* kept as its position relative to 1
calculate_execution_intensity(quote_distance) ==
    IF quote_distance < 0 THEN "above 1"
    ELSE IF quote_distance = 0 THEN "1" ELSE "below 1"

\* the possible values of `intensity > np.random.uniform()`, the draw being
\* in [0, 1)
Exceeds(intensity) ==
    IF intensity \in {"above 1", "1"} THEN {TRUE} ELSE BOOLEAN

----------------------------------------------------------------------------
(* MarketMaker: the methods without side effects *)

calculate_optimal_quotes(vol) ==
    LET half_spread == (risk_aversion * vol * vol) \div (2 * base_intensity)
        inventory_adjustment == inventory * risk_aversion * vol
    IN  [delta_b |-> half_spread - inventory_adjustment,
         delta_a |-> half_spread + inventory_adjustment]

\* np.diff
Diff(xs) == [i \in 1..(Len(xs) - 1) |-> xs[i + 1] - xs[i]]

\* np.cumsum
CumSum(xs) == [i \in 1..Len(xs) |-> Sum(SubSeq(xs, 1, i))]

\* np.maximum.accumulate
RunningMax(xs) == [i \in 1..Len(xs) |-> Max({xs[j] : j \in 1..i})]

IsNegative(r) == r < 0

\* log_performance: the report it prints, or the error it raises
log_performance ==
    LET prices == [i \in 1..Len(trades) |-> trades[i].price]
        sizes == [i \in 1..Len(trades) |-> trades[i].size]
        p == calculate_pnl(List(prices), List(sizes))
        returns == Diff(prices)
        sharpe_ratio == calculate_sharpe_ratio(returns, 0)
        downside_returns == SelectSeq(returns, IsNegative)
        sortino_ratio ==
            IF Len(downside_returns) > 0
            THEN [kind |-> "ratio",
                  num |-> Sum(returns) * Len(downside_returns),
                  den2 |-> Var2(downside_returns), over |-> Len(returns)]
            ELSE [kind |-> "inf"]
        cumulative_returns == CumSum(returns)
        peak == RunningMax(cumulative_returns)
        drawdown == [i \in 1..Len(returns) |-> peak[i] - cumulative_returns[i]]
    IN  IF p.kind = "raise" THEN p
        ELSE IF sharpe_ratio.kind = "raise" THEN sharpe_ratio
        ELSE IF Len(drawdown) = 0
        THEN [kind |-> "raise",
              err |-> "ValueError: zero-size array to reduction operation maximum"]
        ELSE [kind |-> "report", cumulative_pnl |-> p.val,
              sharpe_ratio |-> sharpe_ratio, sortino_ratio |-> sortino_ratio,
              max_drawdown |-> Max({drawdown[i] : i \in 1..Len(drawdown)})]

\* MarketMaker.calculate_sharpe_ratio
MarketMaker_calculate_sharpe_ratio ==
    IF Len(trades) < 2 THEN Scalar(0)
    ELSE LET prices == [i \in 1..Len(trades) |-> trades[i].price]
             returns == Diff(prices)
         IN  IF StdIsZero(returns) THEN Scalar(0)
             ELSE calculate_sharpe_ratio(returns, 0)

\* np.mean of a list: nan for the empty list, else sum / length
Mean(xs) == IF Len(xs) = 0 THEN [kind |-> "nan"]
            ELSE [kind |-> "mean", of |-> xs]

----------------------------------------------------------------------------
(* The call stack.  A frame holds a method's arguments and locals; `ret` is  *)
(* the value the method it called last has returned, NoRet when it is not    *)
(* resuming from a call.                                                     *)

SimFrame(steps) ==
    [fn |-> "run_simulation", steps |-> steps, step |-> 0, quote |-> None,
     failed |-> None, report |-> None, ret |-> NoRet]

MCFrame(num_simulations, steps) ==
    [fn |-> "run_monte_carlo_simulation", num_simulations |-> num_simulations,
     steps |-> steps, all_pnls |-> <<>>, all_sharpe_ratios |-> <<>>,
     ret |-> NoRet]

\* vol0, ep0: the two parameters when the call was made; batches: the Monte
\* Carlo batches the call has started
StressFrame(stress_scenarios, steps) ==
    [fn |-> "run_stress_test", stress_scenarios |-> stress_scenarios,
     steps |-> steps, idx |-> 1, results |-> <<>>, vol0 |-> volatility,
     ep0 |-> execution_probability, batches |-> 0, ret |-> NoRet]

SensFrame(parameter_name, parameter_values, steps) ==
    [fn |-> "run_sensitivity_analysis", parameter_name |-> parameter_name,
     parameter_values |-> parameter_values, steps |-> steps, idx |-> 1,
     results |-> <<>>, vol0 |-> volatility, ep0 |-> execution_probability,
     batches |-> 0, ret |-> NoRet]

TradesFrame(num_trades) ==
    [fn |-> "simulate_trades", num_trades |-> num_trades, done |-> 0,
     ret |-> NoRet]

NoLast == [fn |-> "none"]

Top == stack[Len(stack)]
Below == SubSeq(stack, 1, Len(stack) - 1)

\* frame f, the top of the stack, returns v to the frame below it, or to the
\* caller of the top-level call
ReturnTo(f, v) ==
    IF Len(stack) = 1
    THEN /\ stack' = <<>>
         /\ last' = [fn |-> f.fn, status |-> "returned", val |-> v, frame |-> f]
    ELSE /\ stack' = [Below EXCEPT ![Len(stack) - 1].ret = v]
         /\ last' = last

\* an exception no frame handles: it ends the top-level call, whose frame is b
RaiseOut(b, e) ==
    /\ stack' = <<>>
    /\ last' = [fn |-> b.fn, status |-> "raised", val |-> e, frame |-> b]

Idle == stack = <<>> /\ calls < MaxCalls

Begin(f) ==
    /\ stack' = <<f>>
    /\ last' = NoLast
    /\ calls' = calls + 1

----------------------------------------------------------------------------
(* Construction *)

\* MidPriceModel(...), TradeExecution(...), MarketMaker(...)
Construct ==
    /\ initial_price = 4
    /\ price = initial_price
    /\ volatility \in {0, 2}
    /\ risk_free_rate = 0
    /\ model_type \in {"GBM", "OU"}
    /\ execution_probability = [n |-> 1, d |-> 2]
    /\ risk_aversion = 1
    /\ base_intensity = 1
    /\ inventory = 0
    /\ trades = <<>>
    /\ pnl = 0
    /\ stack = <<>>
    /\ last = NoLast
    /\ calls = 0

Init ==
    /\ Construct
    /\ sh = [kind |-> "unused"]

----------------------------------------------------------------------------
(* MidPriceModel.simulate_price_dynamics, called on its own *)

CallSimulatePriceDynamics ==
    /\ Idle
    /\ \E time_step \in TimeSteps, z \in Shocks :
         LET r == simulate_price_dynamics(price, volatility, risk_free_rate,
                                          model_type, time_step, z)
         IN  /\ r.price # OffGrid
             /\ price' = r.price
             /\ last' = [fn |-> "simulate_price_dynamics",
                         status |-> IF r.kind = "raise" THEN "raised"
                                    ELSE "returned",
                         val |-> IF r.kind = "raise" THEN r.err ELSE r.val,
                         frame |-> [fn |-> "simulate_price_dynamics",
                                    time_step |-> time_step, z |-> z,
                                    price0 |-> price]]
    /\ calls' = calls + 1
    /\ UNCHANGED <<volatility, risk_free_rate, model_type, execution_probability,
                   risk_aversion, base_intensity, inventory, trades, pnl,
                   initial_price, stack, sh>>

----------------------------------------------------------------------------
(* MarketMaker.run_simulation *)

CallRunSimulation ==
    /\ Idle
    /\ \E steps \in 0..MaxSteps : Begin(SimFrame(steps))
    /\ UNCHANGED <<model, sh>>

\* one iteration of the loop: lines 76-90; an exception is caught at line 94
SimStep ==
    /\ stack # <<>>
    /\ Top.fn = "run_simulation"
    /\ Top.step < Top.steps
    /\ \E z \in Shocks :
         LET r == simulate_price_dynamics(price, volatility, risk_free_rate,
                                          model_type, 1, z)
         IN  IF r.kind = "raise"
             THEN /\ price' = r.price
                  /\ ReturnTo([Top EXCEPT !.failed = r], None)
                  /\ UNCHANGED <<inventory, pnl>>
             ELSE /\ r.price # OffGrid
                  /\ LET mid_price == r.val
                         q == calculate_optimal_quotes(volatility)
                         bid_price == mid_price - q.delta_b
                         ask_price == mid_price + q.delta_a
                     IN  \E buy \in Exceeds(calculate_execution_intensity(q.delta_b)),
                            sell \in Exceeds(calculate_execution_intensity(q.delta_a)) :
                           /\ price' = r.price
                           /\ inventory' = inventory + (IF buy THEN 1 ELSE 0)
                                                     - (IF sell THEN 1 ELSE 0)
                           /\ pnl' = pnl - (IF buy THEN bid_price ELSE 0)
                                         + (IF sell THEN ask_price ELSE 0)
                           /\ stack' = [stack EXCEPT ![Len(stack)] =
                                 [@ EXCEPT !.step = @ + 1,
                                           !.quote = [mid_price |-> mid_price,
                                                      delta_b |-> q.delta_b,
                                                      delta_a |-> q.delta_a,
                                                      bid_price |-> bid_price,
                                                      ask_price |-> ask_price]]]
                           /\ last' = last
    /\ UNCHANGED <<volatility, risk_free_rate, model_type, execution_probability,
                   risk_aversion, base_intensity, trades, initial_price, calls, sh>>

\* after the loop: log_performance (line 93), its exception caught at line 94
SimLog ==
    /\ stack # <<>>
    /\ Top.fn = "run_simulation"
    /\ Top.step = Top.steps
    /\ ReturnTo([Top EXCEPT !.report = log_performance], None)
    /\ UNCHANGED <<model, calls, sh>>

----------------------------------------------------------------------------
(* MarketMaker.simulate_trades *)

CallSimulateTrades ==
    /\ Idle
    /\ \E num_trades \in 0..MaxTrades : Begin(TradesFrame(num_trades))
    /\ UNCHANGED <<model, sh>>

\* one iteration of the loop, or the return after the last one
TradesIter ==
    /\ stack # <<>>
    /\ Top.fn = "simulate_trades"
    /\ IF Top.done < Top.num_trades
       THEN \E trade_size \in TradeSizes :
            \E hit \in Exceeds(calculate_execution_intensity(trade_size)),
               trade_direction \in {"buy", "sell"} :
              /\ inventory' = IF ~hit THEN inventory
                              ELSE IF trade_direction = "buy"
                              THEN inventory + trade_size
                              ELSE inventory - trade_size
              /\ pnl' = IF ~hit THEN pnl
                        ELSE IF trade_direction = "buy"
                        THEN pnl - trade_size * price
                        ELSE pnl + trade_size * price
              /\ trades' = IF ~hit THEN trades
                           ELSE Append(trades, [size |-> trade_size,
                                                price |-> price,
                                                type |-> trade_direction])
              /\ stack' = [stack EXCEPT ![Len(stack)].done = @ + 1]
              /\ last' = last
       ELSE /\ ReturnTo(Top, None)
            /\ UNCHANGED <<inventory, pnl, trades>>
    /\ UNCHANGED <<price, volatility, risk_free_rate, model_type,
                   execution_probability, risk_aversion, base_intensity,
                   initial_price, calls, sh>>

----------------------------------------------------------------------------
(* MarketMaker.run_monte_carlo_simulation *)

CallMonteCarlo ==
    /\ Idle
    /\ \E num_simulations \in 0..MaxSims, steps \in BatchSteps :
         Begin(MCFrame(num_simulations, steps))
    /\ UNCHANGED <<model, sh>>

\* From the return of run_simulation (line 185; none on entry) to the next
\* call of it, or to the end of the method: lines 186-190, then the loop test,
\* then either line 185 again or lines 192-202.
MCResume ==
    /\ stack # <<>>
    /\ Top.fn = "run_monte_carlo_simulation"
    /\ LET resumed == Top.ret # NoRet
           p == calculate_pnl(Scalar(price), Scalar(inventory))
           sharpe_ratio == MarketMaker_calculate_sharpe_ratio
           f == IF resumed
                THEN [Top EXCEPT !.all_pnls = Append(@, p.val),
                                 !.all_sharpe_ratios = Append(@, sharpe_ratio),
                                 !.ret = NoRet]
                ELSE Top
       IN  IF resumed /\ p.kind = "raise"
           THEN RaiseOut(stack[1], p.err)
           ELSE IF Len(f.all_pnls) < f.num_simulations
           THEN /\ stack' = Below \o <<f, SimFrame(f.steps)>>
                /\ last' = last
           ELSE ReturnTo(f, [kind |-> "dict",
                             average_pnl |-> Mean(f.all_pnls),
                             average_sharpe_ratio |-> Mean(f.all_sharpe_ratios)])
    /\ UNCHANGED <<model, calls, sh>>

----------------------------------------------------------------------------
(* MarketMaker.run_sensitivity_analysis *)

SensNumSimulations == 10

ParameterNames == {"volatility", "execution_probability", "risk_aversion"}
ParameterValues == {2, 4}

\* the number `value` as an execution probability
AsProbability(value) == [n |-> value, d |-> 1]

\* A variant that ignores a name it does not know
SetParameterLenient(parameter_name, value) ==
    IF parameter_name = "volatility"
    THEN [kind |-> "set", volatility |-> value,
          execution_probability |-> execution_probability]
    ELSE IF parameter_name = "execution_probability"
    THEN [kind |-> "set", volatility |-> volatility,
          execution_probability |-> AsProbability(value)]
    ELSE [kind |-> "set", volatility |-> volatility,
          execution_probability |-> execution_probability]

\* lines 215-220
SetParameter(parameter_name, value) ==
    IF parameter_name = "volatility"
    THEN [kind |-> "set", volatility |-> value,
          execution_probability |-> execution_probability]
    ELSE IF parameter_name = "execution_probability"
    THEN [kind |-> "set", volatility |-> volatility,
          execution_probability |-> AsProbability(value)]
    ELSE [kind |-> "raise", err |-> "ValueError: Unsupported parameter",
          volatility |-> volatility,
          execution_probability |-> execution_probability]

CallSensitivity ==
    /\ Idle
    /\ \E parameter_name \in ParameterNames,
          parameter_values \in SeqUpTo(ParameterValues, MaxListLen),
          steps \in BatchSteps :
         Begin(SensFrame(parameter_name, parameter_values, steps))
    /\ UNCHANGED <<model, sh>>

\* From the return of a Monte Carlo batch (line 222; none on entry) to the
\* next one, or to the end of the method: line 223, then the loop test, then
\* either lines 215-222 or lines 225-229.
SensResume ==
    /\ stack # <<>>
    /\ Top.fn = "run_sensitivity_analysis"
    /\ LET resumed == Top.ret # NoRet
           f == IF resumed
                THEN [Top EXCEPT
                        !.results = (Top.parameter_values[Top.idx] :> Top.ret) @@ @,
                        !.idx = @ + 1, !.ret = NoRet]
                ELSE Top
       IN  IF f.idx <= Len(f.parameter_values)
           THEN LET s == SetParameter(f.parameter_name, f.parameter_values[f.idx])
                IN  /\ volatility' = s.volatility
                    /\ execution_probability' = s.execution_probability
                    /\ IF s.kind = "raise"
                       THEN RaiseOut(f, s.err)
                       ELSE /\ stack' = <<[f EXCEPT !.batches = @ + 1],
                                          MCFrame(SensNumSimulations, f.steps)>>
                            /\ last' = last
           ELSE /\ ReturnTo(f, [kind |-> "dict", results |-> f.results])
                /\ UNCHANGED <<volatility, execution_probability>>
    /\ UNCHANGED <<price, risk_free_rate, model_type, risk_aversion,
                   base_intensity, inventory, trades, pnl, initial_price,
                   calls, sh>>

----------------------------------------------------------------------------
(* MarketMaker.run_stress_test *)

StressNumSimulations == 10

Scenarios == {"high_volatility", "low_liquidity", "flash_crash"}

\* lines 241-246
ApplyScenario(scenario, vol, ep) ==
    IF scenario = "high_volatility"
    THEN [kind |-> "set", volatility |-> vol * 2, execution_probability |-> ep]
    ELSE IF scenario = "low_liquidity"
    THEN [kind |-> "set", volatility |-> vol, execution_probability |-> Half(ep)]
    ELSE [kind |-> "raise", err |-> "ValueError: Unsupported stress scenario",
          volatility |-> vol, execution_probability |-> ep]

\* lines 252-253: volatility /= (2 if ... else 1),
\* execution_probability *= (2 if ... else 1)
RestoreScenario(scenario, vol, ep) ==
    [volatility |-> IF scenario = "high_volatility" THEN vol \div 2 ELSE vol,
     execution_probability |-> IF scenario = "low_liquidity" THEN Double(ep)
                               ELSE ep]

CallStressTest ==
    /\ Idle
    /\ \E stress_scenarios \in SeqUpTo(Scenarios, MaxListLen),
          steps \in BatchSteps :
         Begin(StressFrame(stress_scenarios, steps))
    /\ UNCHANGED <<model, sh>>

\* From the return of a Monte Carlo batch (line 248; none on entry) to the
\* next one, or to the end of the method: lines 249-253, then the loop test,
\* then either lines 241-248 or lines 255-259.
StressResume ==
    /\ stack # <<>>
    /\ Top.fn = "run_stress_test"
    /\ LET resumed == Top.ret # NoRet
           f == IF resumed
                THEN [Top EXCEPT
                        !.results = (Top.stress_scenarios[Top.idx] :> Top.ret) @@ @,
                        !.idx = @ + 1, !.ret = NoRet]
                ELSE Top
           r == IF resumed
                THEN RestoreScenario(Top.stress_scenarios[Top.idx], volatility,
                                     execution_probability)
                ELSE [volatility |-> volatility,
                      execution_probability |-> execution_probability]
       IN  IF f.idx <= Len(f.stress_scenarios)
           THEN LET s == ApplyScenario(f.stress_scenarios[f.idx], r.volatility,
                                       r.execution_probability)
                IN  /\ volatility' = s.volatility
                    /\ execution_probability' = s.execution_probability
                    /\ IF s.kind = "raise"
                       THEN RaiseOut(f, s.err)
                       ELSE /\ stack' = <<[f EXCEPT !.batches = @ + 1],
                                          MCFrame(StressNumSimulations, f.steps)>>
                            /\ last' = last
           ELSE /\ ReturnTo(f, [kind |-> "dict", results |-> f.results])
                /\ volatility' = r.volatility
                /\ execution_probability' = r.execution_probability
    /\ UNCHANGED <<price, risk_free_rate, model_type, risk_aversion,
                   base_intensity, inventory, trades, pnl, initial_price,
                   calls, sh>>

----------------------------------------------------------------------------
(* The program: a client makes up to MaxCalls calls, one after the other *)

Next ==
    \/ CallSimulatePriceDynamics
    \/ CallRunSimulation
    \/ SimStep
    \/ SimLog
    \/ CallSimulateTrades
    \/ TradesIter
    \/ CallMonteCarlo
    \/ MCResume
    \/ CallSensitivity
    \/ SensResume
    \/ CallStressTest
    \/ StressResume

Spec == Init /\ [][Next]_vars

----------------------------------------------------------------------------
(* Parts of the program on their own *)

\* a client of the price model: simulate_price_dynamics on its own, and
\* through run_simulation
NextPrice ==
    \/ CallSimulatePriceDynamics
    \/ CallRunSimulation
    \/ SimStep
    \/ SimLog

SpecPrice == Init /\ [][NextPrice]_vars

\* a client of the batch operations
NextBatch ==
    \/ CallSensitivity
    \/ SensResume
    \/ CallStressTest
    \/ StressResume
    \/ CallMonteCarlo
    \/ MCResume
    \/ SimStep
    \/ SimLog

SpecBatch == Init /\ [][NextBatch]_vars

\* helpers.calculate_sharpe_ratio on every return series of at most
\* MaxReturns returns between -MaxReturn and MaxReturn
InitSharpe ==
    /\ Construct
    /\ sh \in [kind : {"call"},
               returns : SeqUpTo((0 - MaxReturn)..MaxReturn, MaxReturns),
               risk_free_rate : {0, 1},
               result : {NoRet}]

ApplySharpe ==
    /\ sh.kind = "call"
    /\ sh.result = NoRet
    /\ sh' = [sh EXCEPT !.result = calculate_sharpe_ratio(sh.returns,
                                                          sh.risk_free_rate)]
    /\ UNCHANGED <<model, stack, last, calls>>

SpecSharpe == InitSharpe /\ [][ApplySharpe]_vars

----------------------------------------------------------------------------
(* Properties *)

SupportedScenarios == {"high_volatility", "low_liquidity"}

\* C1: when run_stress_test ends on a list of scenarios drawn from
\* {high_volatility, low_liquidity}, by returning or by an error of a Monte
\* Carlo batch, volatility and execution_probability have the values they had
\* before the call.
C1_StressTestRestores ==
    (/\ last.fn = "run_stress_test"
     /\ \A i \in 1..Len(last.frame.stress_scenarios) :
          last.frame.stress_scenarios[i] \in SupportedScenarios)
    => /\ volatility = last.frame.vol0
       /\ execution_probability = last.frame.ep0

\* a replica of a Monte Carlo batch is about to run its first step
ReplicaStarts ==
    /\ Len(stack) >= 2
    /\ Top.fn = "run_simulation"
    /\ Top.step = 0
    /\ Top.failed = None
    /\ stack[Len(stack) - 1].fn = "run_monte_carlo_simulation"

\* C2: every replica of run_monte_carlo_simulation starts from fresh state:
\* inventory 0, pnl 0, no trades, the mid-price at the configured initial
\* price.
C2_ReplicaStartsFresh ==
    ReplicaStarts => /\ inventory = 0
                     /\ pnl = 0
                     /\ trades = <<>>
                     /\ price = initial_price

\* C3: a run_simulation in which a step failed stopped at that step and
\* ended with the error reaching its caller.
C3_StepFailureReachesCaller ==
    (last.fn = "run_simulation" /\ last.frame.failed # None)
    => /\ last.frame.step < last.frame.steps
       /\ last.status = "raised"

SignedSize(t) == IF t.type = "buy" THEN t.size ELSE 0 - t.size

\* C4: pnl is minus the sum over the recorded trades of signed size times
\* price, and inventory is the sum of their signed sizes (so every fill is a
\* recorded trade).
C4_LedgerMatchesTrades ==
    /\ pnl = 0 - Sum([i \in 1..Len(trades) |->
                        SignedSize(trades[i]) * trades[i].price])
    /\ inventory = Sum([i \in 1..Len(trades) |-> SignedSize(trades[i])])

\* C5: the distances of every quote run_simulation forms are strictly
\* positive, so bid_price < mid_price < ask_price (stated here for a positive
\* volatility, where the half spread is positive).
C5_QuoteNeverCrossed ==
    (/\ stack # <<>>
     /\ Top.fn = "run_simulation"
     /\ Top.quote # None
     /\ volatility > 0)
    => /\ Top.quote.delta_b > 0
       /\ Top.quote.delta_a > 0
       /\ Top.quote.bid_price < Top.quote.mid_price
       /\ Top.quote.mid_price < Top.quote.ask_price

\* C6: with the GBM model, run_simulation(steps) ends after exactly `steps`
\* iterations with its risk report computed without error.
C6_RunCompletesWithReport ==
    (last.fn = "run_simulation" /\ model_type = "GBM")
    => /\ last.status = "returned"
       /\ last.frame.step = last.frame.steps
       /\ last.frame.report.kind = "report"

\* C7: run_monte_carlo_simulation(1, 0) on a freshly constructed MarketMaker
\* returns, with a P&L of 0 and the Sharpe ratio of an empty series (None).
C7_MonteCarloZeroSteps ==
    (/\ last.fn = "run_monte_carlo_simulation"
     /\ calls = 1
     /\ model_type = "GBM"
     /\ last.frame.num_simulations = 1
     /\ last.frame.steps = 0)
    => /\ last.status = "returned"
       /\ last.val.average_pnl = Mean(<<0>>)
       /\ last.val.average_sharpe_ratio = Mean(<<None>>)

SupportedParameters == {"volatility", "execution_probability"}

\* run_sensitivity_analysis has ended, called with a name it does not support
UnsupportedEnded ==
    /\ last.fn = "run_sensitivity_analysis"
    /\ last.frame.parameter_name \notin SupportedParameters

\* C8, as claimed: with an unsupported parameter name run_sensitivity_analysis
\* fails with the unsupported-parameter error for every list of values, the
\* empty one included, changes neither parameter and runs no batch.
C8_UnsupportedAlwaysFails ==
    UnsupportedEnded
    => /\ last.status = "raised"
       /\ last.val = "ValueError: Unsupported parameter"
       /\ volatility = last.frame.vol0
       /\ execution_probability = last.frame.ep0
       /\ last.frame.batches = 0

\* C8, amended: with an unsupported parameter name run_sensitivity_analysis
\* fails with the unsupported-parameter error for every non-empty list of
\* values and returns an empty result for the empty list; either way it
\* changes neither parameter and runs no batch.
C8_UnsupportedFailsOnFirstValue ==
    UnsupportedEnded
    => /\ volatility = last.frame.vol0
       /\ execution_probability = last.frame.ep0
       /\ last.frame.batches = 0
       /\ IF last.frame.parameter_values # <<>>
          THEN /\ last.status = "raised"
               /\ last.val = "ValueError: Unsupported parameter"
          ELSE /\ last.status = "returned"
               /\ last.val.results = <<>>

C8_Witness ==
    /\ UnsupportedEnded
    /\ last.frame.parameter_values # <<>>
    /\ last.status = "raised"

AllEqual(xs) == \A i, j \in 1..Len(xs) : xs[i] = xs[j]

\* C9: calculate_sharpe_ratio returns None for an empty series, raises for a
\* non-empty series whose returns are all equal (zero deviation), and
\* otherwise returns mean(excess) / std(excess), a ratio with numerator
\* Sum(returns - risk_free_rate) and a positive deviation.
C9_SharpePolicies ==
    (sh.kind = "call" /\ sh.result # NoRet)
    => IF Len(sh.returns) = 0 THEN sh.result = None
       ELSE IF AllEqual(sh.returns) THEN sh.result.kind = "raise"
       ELSE /\ sh.result.kind = "ratio"
            /\ sh.result.num = Sum(sh.returns) - Len(sh.returns) * sh.risk_free_rate
            /\ sh.result.den2 > 0

C9_Witness ==
    /\ sh.kind = "call"
    /\ Len(sh.returns) = 1
    /\ sh.result # NoRet
    /\ sh.result.kind = "raise"

\* simulate_price_dynamics has just been called on its own
PriceCallEnded == last.fn = "simulate_price_dynamics"

\* C10, as claimed: a call of simulate_price_dynamics that fails leaves the
\* price as it was; one that succeeds changes the price and returns it.
C10_SuccessChangesPrice ==
    PriceCallEnded
    => IF last.status = "raised"
       THEN /\ last.frame.time_step <= 0 \/ model_type # "GBM"
            /\ price = last.frame.price0
       ELSE /\ last.frame.time_step > 0 /\ model_type = "GBM"
            /\ price # last.frame.price0
            /\ last.val = price

\* C10, amended: a call that fails (time_step <= 0, or a model type other
\* than GBM) raises and leaves the price as it was; one that succeeds sets
\* the price to price * exp(drift + shock) and returns it, which leaves the
\* price as it was when drift + shock = 0.
C10_PriceDynamicsOutcome ==
    PriceCallEnded
    => LET f == last.frame
       IN  IF f.time_step <= 0 \/ model_type # "GBM"
           THEN /\ last.status = "raised"
                /\ price = f.price0
           ELSE LET e == Exponent(volatility, risk_free_rate, f.time_step, f.z)
                IN  /\ last.status = "returned"
                    /\ e >= 0 => price = f.price0 * (2 ^ e)
                    /\ e < 0 => price * (2 ^ (0 - e)) = f.price0
                    /\ last.val = price
                    /\ e = 0 => price = f.price0

C10_Witness ==
    /\ PriceCallEnded
    /\ last.frame.time_step > 0
    /\ model_type # "GBM"
    /\ last.status = "raised"

====
